---------------------------- MODULE Spec2Model ----------------------------
(***************************************************************************)
(* Model of the YOLO v2 loss of src/net/netloss.py: calculate_ious,        *)
(* _transform_netout and the class YoloLoss, together with the global      *)
(* configuration YoloParams that the code reads.                           *)
(*                                                                         *)
(* Numbers.  The tensors are float32 (netloss.py:161).  A finite float is  *)
(* modelled as a fixed-point integer, v standing for v / SCALE, and every  *)
(* product or quotient is rounded to the nearest multiple of 1 / SCALE.    *)
(* The result of a float division is a record that also carries the IEEE   *)
(* outcomes of a zero divisor (0/0 = NaN, x/0 = inf).  Raw network outputs *)
(* are drawn from a range in which float32 exp neither overflows nor       *)
(* underflows.                                                             *)
(***************************************************************************)
EXTENDS Integers, Sequences, FiniteSets, TLC

VARIABLES
    YoloParams,   \* the global configuration (class YoloParams of netparams)
    self,         \* the YoloLoss instance (constructed = FALSE before __init__)
    y_true,       \* ground-truth tensor of the batch under evaluation
    y_pred_raw,   \* raw network output of the batch under evaluation
    out,          \* what the last loss invocation produced
    A1,           \* first box handed to a direct calculate_ious call
    A2,           \* second box handed to a direct calculate_ious call
    ious          \* what the last direct calculate_ious call produced

vars == <<YoloParams, self, y_true, y_pred_raw, out, A1, A2, ious>>

---------------------------------------------------------------------------
(* Fixed-point arithmetic standing for float32 arithmetic.                 *)

SCALE == 10 ^ 3

\* Nearest multiple of 1/SCALE of the rational n / d (d > 0), ties upwards.
RoundDiv(n, d) == (2 * n + d) \div (2 * d)

Mul(a, b) == RoundDiv(a * b, SCALE)

Half(a) == RoundDiv(a, 2)

Square(a) == Mul(a, a)

Min2(a, b) == IF a < b THEN a ELSE b

Max2(a, b) == IF a > b THEN a ELSE b

Num(v) == [kind |-> "num", v |-> v]

NaN == [kind |-> "nan", v |-> 0]

Inf == [kind |-> "inf", v |-> 0]

\* Float division a / b: IEEE gives NaN for 0/0 and inf for x/0, x > 0.
FloatDiv(a, b) ==
    IF b = 0 THEN (IF a = 0 THEN NaN ELSE Inf) ELSE Num(RoundDiv(a * SCALE, b))

\* a < t for a division result a and a finite t: every comparison with NaN is false.
FloatLess(a, t) == a.kind = "num" /\ a.v < t

\* The largest of a non-empty set of division results; NaN propagates.
FloatMax(V) ==
    IF \E a \in V : a.kind = "nan" THEN NaN
    ELSE IF \E a \in V : a.kind = "inf" THEN Inf
    ELSE Num(CHOOSE m \in {a.v : a \in V} : \A a \in V : a.v <= m)

---------------------------------------------------------------------------
(* calculate_ious, netloss.py:14-52, on one pair of boxes.  A box is a     *)
(* record with fields x, y, w, h, conf (attributes 0..4 of the last axis). *)

process_boxes(A) ==
    [mins  |-> <<A.x - Half(A.w), A.y - Half(A.h)>>,
     maxes |-> <<A.x + Half(A.w), A.y + Half(A.h)>>,
     wh    |-> <<A.w, A.h>>]

\* Mutant: the clamp K.maximum(..., 0.) of line 41 is left out.
intersect_wh_unclamped(P1, P2) ==
    [i \in 1..2 |-> Min2(P2.maxes[i], P1.maxes[i]) - Max2(P2.mins[i], P1.mins[i])]

intersect_wh(P1, P2) ==
    [i \in 1..2 |->
        Max2(Min2(P2.maxes[i], P1.maxes[i]) - Max2(P2.mins[i], P1.mins[i]), 0)]

intersect_areas(B1, B2) ==
    LET iwh == intersect_wh(process_boxes(B1), process_boxes(B2))
    IN  Mul(iwh[1], iwh[2])

box_area(A) == Mul(A.w, A.h)

union_areas(B1, B2) == box_area(B2) + box_area(B1) - intersect_areas(B1, B2)

\* The value returned with use_iou = True.
iou_ratio(B1, B2) == FloatDiv(intersect_areas(B1, B2), union_areas(B1, B2))

calculate_ious(B1, B2, use_iou) ==
    IF ~use_iou THEN Num(B1.conf) ELSE iou_ratio(B1, B2)

---------------------------------------------------------------------------
(* Direct calls of calculate_ious on pairs of boxes.                       *)

MaxCoord == 2

MaxSize == 2

\* Centres and sizes in steps of one half.
Coords == {k * (SCALE \div 2) : k \in 0..MaxCoord}

Sizes == {k * (SCALE \div 2) : k \in 0..MaxSize}

Boxes == [x : Coords, y : Coords, w : Sizes, h : Sizes, conf : {0, SCALE}]

\* The second operand's objectness is never read (netloss.py:17).
Boxes2 == {b \in Boxes : b.conf = 0}

NoBox == [x |-> 0, y |-> 0, w |-> 0, h |-> 0, conf |-> 0]

NoIous == [called |-> FALSE, use_iou |-> FALSE, intersect |-> 0, union |-> 0,
           value |-> Num(0)]

CalculateIous(use_iou) ==
    /\ ious' = [called |-> TRUE, use_iou |-> use_iou,
                intersect |-> intersect_areas(A1, A2),
                union |-> union_areas(A1, A2),
                value |-> calculate_ious(A1, A2, use_iou)]
    /\ UNCHANGED <<YoloParams, self, y_true, y_pred_raw, out, A1, A2>>


---------------------------------------------------------------------------
(* The global configuration.  netparams.py is not among the sources: the   *)
(* fields are the ones netloss.py reads, and their values follow sections  *)
(* 3 and 6 of the specification (positive weights, positive anchor priors, *)
(* integer grid-cell offsets, c_grid[row, col] = (col - 1, row - 1)).      *)

Weights(v) ==
    IF v = 1
    THEN [COORD_SCALE |-> 1 * SCALE, NO_OBJECT_SCALE |-> 1 * SCALE,
          OBJECT_SCALE |-> 5 * SCALE, CLASS_SCALE |-> 1 * SCALE]
    ELSE [COORD_SCALE |-> 5 * SCALE, NO_OBJECT_SCALE |-> 2 * SCALE,
          OBJECT_SCALE |-> 3 * SCALE, CLASS_SCALE |-> 2 * SCALE]

\* Anchor priors (width, height) in grid units; v selects one of two templates.
Anchors(A, v) == [a \in 1..A |-> <<(a + v - 1) * SCALE, (a + v - 1) * SCALE>>]

CGrid(S) == [rc \in (1..S) \X (1..S) |-> <<(rc[2] - 1) * SCALE, (rc[1] - 1) * SCALE>>]

Params(batch, S, A, av, wv) ==
    [BATCH_SIZE |-> batch, GRID_SIZE |-> S, NUM_BOUNDING_BOXES |-> A,
     NUM_CLASSES |-> 2, anchors |-> Anchors(A, av), c_grid |-> CGrid(S),
     COORD_SCALE |-> Weights(wv).COORD_SCALE,
     NO_OBJECT_SCALE |-> Weights(wv).NO_OBJECT_SCALE,
     OBJECT_SCALE |-> Weights(wv).OBJECT_SCALE,
     CLASS_SCALE |-> Weights(wv).CLASS_SCALE]

\* What a loss invocation reads of YoloParams (netloss.py:56-57, 99-100, 116).
Geometry(P) ==
    [BATCH_SIZE |-> P.BATCH_SIZE, GRID_SIZE |-> P.GRID_SIZE,
     NUM_BOUNDING_BOXES |-> P.NUM_BOUNDING_BOXES, NUM_CLASSES |-> P.NUM_CLASSES,
     anchors |-> P.anchors, c_grid |-> P.c_grid]

---------------------------------------------------------------------------
(* Tensors of rank 5, [batch, row, col, anchor, attribute]: a record with  *)
(* the shape (B, S, A) and the cells, each cell a record of the attributes *)
(* x, y, w, h, conf and cls (the class vector, attributes 5..).            *)

Index(B, S, A) == (1..B) \X (1..S) \X (1..S) \X (1..A)

\* at is a function on Index(B, S, A).
Tensor(B, S, A, at) == [B |-> B, S |-> S, A |-> A, at |-> at]

\* Number of cells, and the row-major position of a cell (C order, as K.reshape).
NumCells(T) == T.B * T.S * T.S * T.A

IndexOf(n, S, A) ==
    LET m == n - 1
    IN  <<(m \div (A * S * S)) + 1, ((m \div (A * S)) % S) + 1,
          ((m \div A) % S) + 1, (m % A) + 1>>

\* Broadcasting along the batch axis: an axis of length 1 is repeated.
Broadcastable(B1, B2) == B1 = B2 \/ B1 = 1 \/ B2 = 1

BroadcastIndex(T, i) == <<IF T.B = 1 THEN 1 ELSE i[1], i[2], i[3], i[4]>>

RECURSIVE SumSeq(_)
SumSeq(s) == IF s = <<>> THEN 0 ELSE Head(s) + SumSeq(Tail(s))

\* K.sum of f, a function on Index(B, S, A), over all its elements.
KSum(B, S, A, f) == SumSeq([n \in 1..(B * S * S * A) |-> f[IndexOf(n, S, A)]])

---------------------------------------------------------------------------
(* _transform_netout, netloss.py:55-61.  K.sigmoid and K.exp are tabulated *)
(* on the raw values the batches use, rounded to 1 / SCALE.                *)

Sigmoid(v) ==
    CASE v = -1 * SCALE -> 269
      [] v = 0          -> 500
      [] v = 1 * SCALE  -> 731
      [] v = 20 * SCALE -> 1000

Exp(v) ==
    CASE v = -1 * SCALE -> 368
      [] v = 0          -> 1000
      [] v = 1 * SCALE  -> 2718

\* Mutant: the grid offset c_grid is not added to the centre.
_transform_netout_no_grid(P, raw) ==
    Tensor(raw.B, raw.S, raw.A,
           [i \in Index(raw.B, raw.S, raw.A) |->
               LET cell == raw.at[i]
               IN  [x    |-> Sigmoid(cell.x),
                    y    |-> Sigmoid(cell.y),
                    w    |-> Mul(Exp(cell.w), P.anchors[i[4]][1]),
                    h    |-> Mul(Exp(cell.h), P.anchors[i[4]][2]),
                    conf |-> Sigmoid(cell.conf),
                    cls  |-> cell.cls]])

\* Mutant: the raw width and height scale the anchor without K.exp.
_transform_netout_linear(P, raw) ==
    Tensor(raw.B, raw.S, raw.A,
           [i \in Index(raw.B, raw.S, raw.A) |->
               LET cell == raw.at[i]
               IN  [x    |-> Sigmoid(cell.x) + P.c_grid[<<i[2], i[3]>>][1],
                    y    |-> Sigmoid(cell.y) + P.c_grid[<<i[2], i[3]>>][2],
                    w    |-> Mul(cell.w, P.anchors[i[4]][1]),
                    h    |-> Mul(cell.h, P.anchors[i[4]][2]),
                    conf |-> Sigmoid(cell.conf),
                    cls  |-> cell.cls]])

_transform_netout(P, raw) ==
    Tensor(raw.B, raw.S, raw.A,
           [i \in Index(raw.B, raw.S, raw.A) |->
               LET cell == raw.at[i]
               IN  [x    |-> Sigmoid(cell.x) + P.c_grid[<<i[2], i[3]>>][1],
                    y    |-> Sigmoid(cell.y) + P.c_grid[<<i[2], i[3]>>][2],
                    w    |-> Mul(Exp(cell.w), P.anchors[i[4]][1]),
                    h    |-> Mul(Exp(cell.h), P.anchors[i[4]][2]),
                    conf |-> Sigmoid(cell.conf),
                    cls  |-> cell.cls]])

---------------------------------------------------------------------------
(* class YoloLoss, netloss.py:63-154.                                      *)

IOU_FILTER == 600

NoInstance ==
    [constructed |-> FALSE, iou_filter |-> 0, readjust_obj_score |-> FALSE,
     lambda_coord |-> 0, lambda_noobj |-> 0, lambda_obj |-> 0, lambda_class |-> 0]

\* __init__: the weights are copied from YoloParams as it is at construction.
__init__(P) ==
    [constructed |-> TRUE, iou_filter |-> IOU_FILTER, readjust_obj_score |-> FALSE,
     lambda_coord |-> P.COORD_SCALE, lambda_noobj |-> P.NO_OBJECT_SCALE,
     lambda_obj |-> P.OBJECT_SCALE, lambda_class |-> P.CLASS_SCALE]

\* Batch length of the elementwise combination of t and p (same S and A).
OutB(t, p) == Max2(t.B, p.B)

\* Element i of y_true and of y_pred in an elementwise combination.
TrueAt(t, i) == t.at[BroadcastIndex(t, i)]

PredAt(p, i) == p.at[BroadcastIndex(p, i)]

indicator_coord(slf, t, i) == Mul(TrueAt(t, i).conf, slf.lambda_coord)

loss_xy(slf, t, p) ==
    KSum(OutB(t, p), p.S, p.A,
         [i \in Index(OutB(t, p), p.S, p.A) |->
             Mul(Square(TrueAt(t, i).x - PredAt(p, i).x), indicator_coord(slf, t, i))
             + Mul(Square(TrueAt(t, i).y - PredAt(p, i).y), indicator_coord(slf, t, i))])

loss_wh(slf, t, p) ==
    KSum(OutB(t, p), p.S, p.A,
         [i \in Index(OutB(t, p), p.S, p.A) |->
             Mul(Square(TrueAt(t, i).w - PredAt(p, i).w), indicator_coord(slf, t, i))
             + Mul(Square(TrueAt(t, i).h - PredAt(p, i).h), indicator_coord(slf, t, i))])

coord_loss(slf, t, p) ==
    IF ~Broadcastable(t.B, p.B) THEN [ok |-> FALSE, loss |-> 0]
    ELSE [ok |-> TRUE, loss |-> Half(loss_wh(slf, t, p) + loss_xy(slf, t, p))]

\* K.reshape(y_true[..., :4], (BATCH_SIZE, 1, 1, 1, num_true_labels, 4)): the boxes
\* in row-major order, cut into BATCH_SIZE pools of num_true_labels boxes each.
num_true_labels(P) == P.GRID_SIZE * P.GRID_SIZE * P.NUM_BOUNDING_BOXES

ReshapeOk(P, t) == NumCells(t) = P.BATCH_SIZE * num_true_labels(P)

\* y_true_p[b, 0, 0, 0, k]
y_true_p(P, t, b, k) == t.at[IndexOf((b - 1) * num_true_labels(P) + k, t.S, t.A)]

\* Mutant: every prediction is compared with the pool of the first batch element.
PoolBox_first_image(P, t, i, k) == y_true_p(P, t, 1, k)

\* The box of the pool that meets prediction i at position k of the pooled axis
\* (y_true_p has batch length BATCH_SIZE and is broadcast against y_pred).
PoolBox(P, t, i, k) == y_true_p(P, t, IF P.BATCH_SIZE = 1 THEN 1 ELSE i[1], k)

\* iou_scores_buff[i, k] = calculate_ious(y_true_p, expand_dims(y_pred))[i, k]
iou_scores_buff(P, t, p, i, k) == calculate_ious(PoolBox(P, t, i, k), PredAt(p, i), TRUE)

\* K.max(iou_scores_buff, axis=4)[i]
best_ious(P, t, p, i) ==
    FloatMax({iou_scores_buff(P, t, p, i, k) : k \in 1..num_true_labels(P)})

\* Batch length of best_ious, and of the objectness term.
BestB(P, p) == Max2(P.BATCH_SIZE, p.B)

ObjB(P, t, p) == Max2(BestB(P, p), t.B)

\* Mutant: the factor (1 - y_true[..., 4]) is left out.
indicator_noobj_unmasked(slf, P, t, p, i) ==
    Mul(IF FloatLess(best_ious(P, t, p, <<IF BestB(P, p) = 1 THEN 1 ELSE i[1],
                                         i[2], i[3], i[4]>>),
                     slf.iou_filter)
        THEN SCALE ELSE 0,
        slf.lambda_noobj)

indicator_noobj(slf, P, t, p, i) ==
    Mul(Mul(IF FloatLess(best_ious(P, t, p, <<IF BestB(P, p) = 1 THEN 1 ELSE i[1],
                                             i[2], i[3], i[4]>>),
                         slf.iou_filter)
            THEN SCALE ELSE 0,
            SCALE - TrueAt(t, i).conf),
        slf.lambda_noobj)

indicator_obj(slf, t, i) == Mul(TrueAt(t, i).conf, slf.lambda_obj)

indicator_o(slf, P, t, p, i) == indicator_obj(slf, t, i) + indicator_noobj(slf, P, t, p, i)

b_o(slf, t, p, i) == calculate_ious(TrueAt(t, i), PredAt(p, i), slf.readjust_obj_score)

\* Mutant: the error is not squared.
loss_obj_unsquared(slf, P, t, p) ==
    KSum(ObjB(P, t, p), p.S, p.A,
         [i \in Index(ObjB(P, t, p), p.S, p.A) |->
             Mul(b_o(slf, t, p, i).v - PredAt(p, i).conf, indicator_o(slf, P, t, p, i))])

loss_obj(slf, P, t, p) ==
    KSum(ObjB(P, t, p), p.S, p.A,
         [i \in Index(ObjB(P, t, p), p.S, p.A) |->
             Mul(Square(b_o(slf, t, p, i).v - PredAt(p, i).conf),
                 indicator_o(slf, P, t, p, i))])

obj_loss(slf, P, t, p) ==
    IF \/ ~ReshapeOk(P, t)
       \/ ~Broadcastable(P.BATCH_SIZE, p.B)
       \/ ~Broadcastable(BestB(P, p), t.B)
    THEN [ok |-> FALSE, loss |-> 0, finite |-> TRUE, indicator_noobj |-> <<>>,
          indicator_obj |-> <<>>, best_ious |-> <<>>, union_areas |-> {}]
    ELSE [ok |-> TRUE, loss |-> Half(loss_obj(slf, P, t, p)),
          finite |-> \A i \in Index(ObjB(P, t, p), p.S, p.A) : b_o(slf, t, p, i).kind = "num",
          indicator_noobj |->
              [i \in Index(ObjB(P, t, p), p.S, p.A) |-> indicator_noobj(slf, P, t, p, i)],
          indicator_obj |->
              [i \in Index(ObjB(P, t, p), p.S, p.A) |-> indicator_obj(slf, t, i)],
          best_ious |->
              [i \in Index(BestB(P, p), p.S, p.A) |-> best_ious(P, t, p, i)],
          union_areas |->
              {union_areas(PoolBox(P, t, i, k), PredAt(p, i)) :
                  i \in Index(BestB(P, p), p.S, p.A), k \in 1..num_true_labels(P)}]

\* K.softmax over the class axis.
Softmax(cls) ==
    [c \in 1..Len(cls) |->
        RoundDiv(Exp(cls[c]) * SCALE, SumSeq([j \in 1..Len(cls) |-> Exp(cls[j])]))]

\* K.argmax: the first index of a largest element.
Argmax(cls) ==
    CHOOSE k \in 1..Len(cls) :
        /\ \A j \in 1..Len(cls) : cls[j] <= cls[k]
        /\ \A j \in 1..(k - 1) : cls[j] < cls[k]

OneHot(k, n) == [c \in 1..n |-> IF c = k THEN SCALE ELSE 0]

\* Mutant: the class logits are used without K.softmax.
p_c_pred_logits(p, i) == PredAt(p, i).cls

p_c_pred(p, i) == Softmax(PredAt(p, i).cls)

p_c(P, t, i) == OneHot(Argmax(TrueAt(t, i).cls), P.NUM_CLASSES)

loss_class_arg(P, t, p, i) ==
    SumSeq([c \in 1..P.NUM_CLASSES |-> Square(p_c(P, t, i)[c] - p_c_pred(p, i)[c])])

indicator_class(slf, t, i) == Mul(TrueAt(t, i).conf, slf.lambda_class)

loss_class(slf, P, t, p) ==
    KSum(OutB(t, p), p.S, p.A,
         [i \in Index(OutB(t, p), p.S, p.A) |->
             Mul(loss_class_arg(P, t, p, i), indicator_class(slf, t, i))])

class_loss(slf, P, t, p) ==
    IF ~Broadcastable(t.B, p.B) THEN [ok |-> FALSE, loss |-> 0, indicator_class |-> <<>>]
    ELSE [ok |-> TRUE, loss |-> loss_class(slf, P, t, p),
          indicator_class |->
              [i \in Index(OutB(t, p), p.S, p.A) |-> indicator_class(slf, t, i)]]

NoOut ==
    [entry |-> "none", ok |-> FALSE, value |-> 0, coord |-> 0, obj |-> 0, class |-> 0,
     finite |-> TRUE, y_pred |-> <<>>, instance |-> NoInstance, geometry |-> <<>>,
     indicator_noobj |-> <<>>, indicator_obj |-> <<>>, indicator_class |-> <<>>,
     best_ious |-> <<>>, union_areas |-> {}]

\* The record of an invocation: the value returned (ok = FALSE: an error was raised
\* and nothing returned), the terms computed, and the locals the terms were made of.
Invocation(entry, slf, P, p, c, o, k) ==
    [entry |-> entry, ok |-> c.ok /\ o.ok /\ k.ok,
     value |-> IF c.ok /\ o.ok /\ k.ok THEN c.loss + o.loss + k.loss ELSE 0,
     coord |-> c.loss, obj |-> o.loss, class |-> k.loss, finite |-> o.finite,
     y_pred |-> p, instance |-> slf, geometry |-> Geometry(P),
     indicator_noobj |-> o.indicator_noobj, indicator_obj |-> o.indicator_obj,
     indicator_class |-> k.indicator_class, best_ious |-> o.best_ious,
     union_areas |-> o.union_areas]

\* A term that the entry point does not compute.
Skipped ==
    [ok |-> TRUE, loss |-> 0, finite |-> TRUE, indicator_noobj |-> <<>>,
     indicator_obj |-> <<>>, indicator_class |-> <<>>, best_ious |-> <<>>,
     union_areas |-> {}]

l_coord(slf, P, t, raw) ==
    LET p == _transform_netout(P, raw)
    IN  Invocation("l_coord", slf, P, p, coord_loss(slf, t, p), Skipped, Skipped)

l_obj(slf, P, t, raw) ==
    LET p == _transform_netout(P, raw)
    IN  Invocation("l_obj", slf, P, p, Skipped, obj_loss(slf, P, t, p), Skipped)

l_class(slf, P, t, raw) ==
    LET p == _transform_netout(P, raw)
    IN  Invocation("l_class", slf, P, p, Skipped, Skipped, class_loss(slf, P, t, p))

\* Mutant: the weights are read from YoloParams at the invocation.
__call__global_weights(slf, P, t, raw) ==
    LET y_pred == _transform_netout(P, raw)
    IN  Invocation("__call__", slf, P, y_pred, coord_loss(__init__(P), t, y_pred),
                   obj_loss(__init__(P), P, t, y_pred),
                   class_loss(__init__(P), P, t, y_pred))

__call__(slf, P, t, raw) ==
    LET y_pred == _transform_netout(P, raw)
    IN  Invocation("__call__", slf, P, y_pred, coord_loss(slf, t, y_pred),
                   obj_loss(slf, P, t, y_pred), class_loss(slf, P, t, y_pred))

---------------------------------------------------------------------------
(* The batches.  A ground-truth cell is empty (all zero) or holds an       *)
(* object centred in its grid cell; a raw prediction cell is one of three  *)
(* raw vectors.                                                            *)

EmptyCell == [x |-> 0, y |-> 0, w |-> 0, h |-> 0, conf |-> 0, cls |-> <<0, 0>>]

\* kind 1: a 1 x 1 object of class 1; kind 2: a 2 x 2 object of class 2.
ObjectCell(kind, S, i) ==
    [x |-> CGrid(S)[<<i[2], i[3]>>][1] + (SCALE \div 2),
     y |-> CGrid(S)[<<i[2], i[3]>>][2] + (SCALE \div 2),
     w |-> kind * SCALE, h |-> kind * SCALE, conf |-> SCALE,
     cls |-> IF kind = 1 THEN <<SCALE, 0>> ELSE <<0, SCALE>>]

TrueCell(kind, S, i) == IF kind = 0 THEN EmptyCell ELSE ObjectCell(kind, S, i)

TrueTensors(B, S, A, kinds) ==
    {Tensor(B, S, A, [i \in Index(B, S, A) |-> TrueCell(f[i], S, i)]) :
        f \in [Index(B, S, A) -> kinds]}

RawZero == [x |-> 0, y |-> 0, w |-> 0, h |-> 0, conf |-> 0, cls |-> <<0, 0>>]

RawSure == [x |-> 0, y |-> 0, w |-> 0, h |-> 0, conf |-> 20 * SCALE, cls |-> <<SCALE, 0>>]

RawSkew ==
    [x |-> SCALE, y |-> -SCALE, w |-> SCALE, h |-> -SCALE, conf |-> -SCALE,
     cls |-> <<0, SCALE>>]

RawTensors(B, S, A, cells) ==
    {Tensor(B, S, A, f) : f \in [Index(B, S, A) -> cells]}

---------------------------------------------------------------------------
(* Operations.                                                             *)

\* var = YoloLoss()
Construct ==
    /\ self' = __init__(YoloParams)
    /\ UNCHANGED <<YoloParams, y_true, y_pred_raw, out, A1, A2, ious>>

\* An attribute of the global configuration is reassigned: the batch size, the
\* anchor template, or the four loss weights.
SetParams ==
    /\ \/ \E av \in 1..2 :
              YoloParams' = [YoloParams EXCEPT
                                !.anchors = Anchors(YoloParams.NUM_BOUNDING_BOXES, av)]
       \/ \E b \in 1..2 : YoloParams' = [YoloParams EXCEPT !.BATCH_SIZE = b]
       \/ \E wv \in 1..2 :
              YoloParams' = [YoloParams EXCEPT
                                !.COORD_SCALE = Weights(wv).COORD_SCALE,
                                !.NO_OBJECT_SCALE = Weights(wv).NO_OBJECT_SCALE,
                                !.OBJECT_SCALE = Weights(wv).OBJECT_SCALE,
                                !.CLASS_SCALE = Weights(wv).CLASS_SCALE]
    /\ YoloParams' # YoloParams
    /\ UNCHANGED <<self, y_true, y_pred_raw, out, A1, A2, ious>>

\* var(y_true, y_pred_raw)
Call ==
    /\ self.constructed
    /\ out' = __call__(self, YoloParams, y_true, y_pred_raw)
    /\ UNCHANGED <<YoloParams, self, y_true, y_pred_raw, A1, A2, ious>>

LCoord ==
    /\ self.constructed
    /\ out' = l_coord(self, YoloParams, y_true, y_pred_raw)
    /\ UNCHANGED <<YoloParams, self, y_true, y_pred_raw, A1, A2, ious>>

LObj ==
    /\ self.constructed
    /\ out' = l_obj(self, YoloParams, y_true, y_pred_raw)
    /\ UNCHANGED <<YoloParams, self, y_true, y_pred_raw, A1, A2, ious>>

LClass ==
    /\ self.constructed
    /\ out' = l_class(self, YoloParams, y_true, y_pred_raw)
    /\ UNCHANGED <<YoloParams, self, y_true, y_pred_raw, A1, A2, ious>>

---------------------------------------------------------------------------
(* Specifications.                                                         *)

\* One instance's life on a 1 x 1 grid with one anchor: the configuration may be
\* reassigned at any time, and the two tensors may differ in batch size.
Init ==
    /\ YoloParams \in {Params(b, 1, 1, 1, 1) : b \in 1..2}
    /\ self = NoInstance
    /\ \E Bt \in 1..2 : y_true \in TrueTensors(Bt, 1, 1, {0, 1})
    /\ \E Bp \in 1..2 : y_pred_raw \in RawTensors(Bp, 1, 1, {RawZero, RawSure})
    /\ out = NoOut
    /\ A1 = NoBox /\ A2 = NoBox /\ ious = NoIous

Next == Construct \/ SetParams \/ Call \/ LCoord \/ LObj \/ LClass

Spec == Init /\ [][Next]_vars

\* Batches whose shape is the configured one, on grids with several cells per image:
\* two images of a 1 x 1 grid with two anchors (objects of both sizes), or one image
\* of a 2 x 2 grid with one anchor.
InitPool ==
    /\ \/ /\ YoloParams = Params(2, 1, 2, 1, 1)
          /\ y_true \in TrueTensors(2, 1, 2, {0, 1, 2})
          /\ y_pred_raw \in RawTensors(2, 1, 2, {RawZero, RawSkew})
       \/ /\ YoloParams = Params(1, 2, 1, 1, 1)
          /\ y_true \in TrueTensors(1, 2, 1, {0, 1})
          /\ y_pred_raw \in RawTensors(1, 2, 1, {RawZero, RawSkew})
    /\ self = NoInstance
    /\ out = NoOut
    /\ A1 = NoBox /\ A2 = NoBox /\ ious = NoIous

NextPool == Construct \/ Call \/ LObj

SpecPool == InitPool /\ [][NextPool]_vars

\* Direct calls of calculate_ious on every pair of boxes.
InitIoU ==
    /\ A1 \in Boxes /\ A2 \in Boxes2
    /\ ious = NoIous
    /\ YoloParams = Params(1, 1, 1, 1, 1)
    /\ self = NoInstance
    /\ y_true = Tensor(1, 1, 1, [i \in Index(1, 1, 1) |-> EmptyCell])
    /\ y_pred_raw = Tensor(1, 1, 1, [i \in Index(1, 1, 1) |-> RawZero])
    /\ out = NoOut

NextIoU == \E use_iou \in BOOLEAN : CalculateIous(use_iou)

SpecIoU == InitIoU /\ [][NextIoU]_vars

---------------------------------------------------------------------------
(* Properties of calculate_ious, checked under SpecIoU.                    *)

\* The two boxes are separated (or only touch) along at least one axis.
NoOverlap(B1, B2) ==
    \/ 2 * B1.x + B1.w <= 2 * B2.x - B2.w
    \/ 2 * B2.x + B2.w <= 2 * B1.x - B1.w
    \/ 2 * B1.y + B1.h <= 2 * B2.y - B2.h
    \/ 2 * B2.y + B2.h <= 2 * B1.y - B1.h

\* C8: for boxes of non-negative width and height with a nonzero union,
\* calculate_ious with use_iou = True returns a number in [0, 1], and returns
\* exactly 0 when the boxes do not overlap along at least one axis.
C8_IouInUnitInterval ==
    (ious.called /\ ious.use_iou /\ ious.union # 0) =>
        /\ ious.value.kind = "num"
        /\ 0 <= ious.value.v /\ ious.value.v <= SCALE
        /\ NoOverlap(A1, A2) => ious.value = Num(0)

\* Reached: two boxes that overlap in part.
C8_Witness ==
    /\ ious.called /\ ious.use_iou /\ ious.union # 0
    /\ 0 < ious.value.v /\ ious.value.v < SCALE

\* C6: with use_iou = True the union is 0 only when both boxes have zero area,
\* and then calculate_ious returns 0.
C6_ZeroUnionReturnsZero ==
    (ious.called /\ ious.use_iou /\ ious.union = 0) =>
        /\ box_area(A1) = 0 /\ box_area(A2) = 0
        /\ ious.value = Num(0)

---------------------------------------------------------------------------
(* Properties of the loss on batches of the configured shape, checked      *)
(* under SpecPool.                                                         *)

Invoked == out.entry # "none" /\ out.ok

AllZeroRaw == \A i \in DOMAIN y_pred_raw.at : y_pred_raw.at[i] = RawZero

\* C1: on well-formed tensors the value returned and each term are >= 0.
C1_LossNonNegative ==
    Invoked => /\ out.value >= 0
               /\ out.coord >= 0 /\ out.obj >= 0 /\ out.class >= 0

C1_Witness ==
    /\ out.entry = "__call__" /\ out.ok
    /\ out.coord > 0 /\ out.obj > 0 /\ out.class > 0
    /\ \E i \in DOMAIN y_true.at : y_true.at[i].conf = SCALE
    /\ \E i \in DOMAIN y_true.at : y_true.at[i].conf = 0

\* The ground-truth cells of batch element b.
CellsOf(b) == {j \in DOMAIN y_true.at : j[1] = b}

\* Every ground-truth box of the batch element of prediction i has an IoU with
\* it strictly below the filter: the maximum over them is strictly below it.
BestBelowFilter(i) ==
    \A j \in CellsOf(i[1]) :
        FloatLess(iou_ratio(y_true.at[j], out.y_pred.at[i]), out.instance.iou_filter)

\* C2: the no-object indicator of a prediction is lambda_noobj exactly when its
\* best IoU over all ground-truth boxes of its own batch element is strictly
\* below iou_filter and its own cell holds no object; otherwise it is 0.
C2_NoObjectIndicator ==
    (Invoked /\ out.entry \in {"__call__", "l_obj"}) =>
        \A i \in DOMAIN out.y_pred.at :
            out.indicator_noobj[i] =
                IF BestBelowFilter(i) /\ y_true.at[i].conf = 0
                THEN out.instance.lambda_noobj ELSE 0

\* Reached: a prediction in an empty cell whose indicator is 0 because of a box
\* elsewhere in its image, and one whose indicator is lambda_noobj although a box
\* of the other image would match it.
C2_Witness ==
    /\ Invoked /\ out.entry = "__call__" /\ y_true.B = 2
    /\ \E i \in DOMAIN out.y_pred.at :
           /\ y_true.at[i].conf = 0 /\ out.indicator_noobj[i] = 0
    /\ \E i \in DOMAIN out.y_pred.at, j \in DOMAIN y_true.at :
           /\ j[1] # i[1]
           /\ ~FloatLess(iou_ratio(y_true.at[j], out.y_pred.at[i]), IOU_FILTER)
           /\ out.indicator_noobj[i] = out.instance.lambda_noobj

\* C3: with ground-truth objectness in {0, 1}, the object and no-object
\* indicators are never both nonzero, their sum is lambda_obj, lambda_noobj or
\* 0, and the class indicator is nonzero only where the objectness is 1.
C3_IndicatorsExclusive ==
    (Invoked /\ out.entry = "__call__") =>
        \A i \in DOMAIN out.y_pred.at :
            /\ ~(out.indicator_obj[i] # 0 /\ out.indicator_noobj[i] # 0)
            /\ out.indicator_obj[i] + out.indicator_noobj[i]
                   \in {out.instance.lambda_obj, out.instance.lambda_noobj, 0}
            /\ out.indicator_class[i] # 0 => y_true.at[i].conf = SCALE

C3_Witness ==
    /\ Invoked /\ out.entry = "__call__"
    /\ \E i \in DOMAIN out.y_pred.at :
           out.indicator_obj[i] # 0 /\ out.indicator_class[i] # 0
    /\ \E i \in DOMAIN out.y_pred.at : out.indicator_noobj[i] # 0
    /\ \E i \in DOMAIN out.y_pred.at :
           out.indicator_obj[i] = 0 /\ out.indicator_noobj[i] = 0

\* C10: in __call__ and l_obj every division of calculate_ious has a strictly
\* positive union, also against the zero-area boxes of empty ground-truth
\* cells, for which the IoU is 0.
C10_UnionPositive ==
    (Invoked /\ out.entry \in {"__call__", "l_obj"}) =>
        /\ \A u \in out.union_areas : u > 0
        /\ \A i \in DOMAIN out.y_pred.at :
               \A j \in CellsOf(i[1]) :
                   box_area(y_true.at[j]) = 0 =>
                       iou_ratio(y_true.at[j], out.y_pred.at[i]) = Num(0)

C10_Witness ==
    /\ Invoked /\ out.entry = "l_obj"
    /\ \E j \in DOMAIN y_true.at : box_area(y_true.at[j]) = 0
    /\ \E j \in DOMAIN y_true.at : box_area(y_true.at[j]) > 0

\* The decoding of an all-zero raw tensor, with dx added to each centre
\* coordinate of the grid offset.
DecodedZero(dx) ==
    \A i \in DOMAIN out.y_pred.at :
        /\ out.y_pred.at[i].x = out.geometry.c_grid[<<i[2], i[3]>>][1] + dx
        /\ out.y_pred.at[i].y = out.geometry.c_grid[<<i[2], i[3]>>][2] + dx
        /\ out.y_pred.at[i].w = out.geometry.anchors[i[4]][1]
        /\ out.y_pred.at[i].h = out.geometry.anchors[i[4]][2]
        /\ out.y_pred.at[i].conf = SCALE \div 2
        /\ out.y_pred.at[i].cls = <<0, 0>>

\* C7, as stated: an all-zero raw tensor decodes to the grid offset exactly.
C7_ZeroDecodesToOffset == (out.entry # "none" /\ AllZeroRaw) => DecodedZero(0)

\* C7, amended: an all-zero raw tensor decodes to the centre of each grid cell
\* (offset + 0.5), the anchor prior, objectness 0.5 and class logits 0.
C7_ZeroDecodesToCellCentre ==
    (out.entry # "none" /\ AllZeroRaw) => DecodedZero(SCALE \div 2)

C7_Witness == out.entry = "__call__" /\ AllZeroRaw /\ y_pred_raw.S = 2

---------------------------------------------------------------------------
(* Properties of one instance's life, checked under Spec.                  *)

\* The scenario of C4: batch 1, grid 1 x 1, one anchor, two classes, one object,
\* and a decoded prediction equal to the ground truth on every attribute.
MatchingScenario ==
    /\ out.entry = "__call__" /\ out.ok
    /\ y_true.B = 1 /\ y_pred_raw.B = 1 /\ y_true.S = 1 /\ y_true.A = 1
    /\ y_true.at[<<1, 1, 1, 1>>].conf = SCALE
    /\ out.y_pred = y_true

\* C4, as stated: in the scenario the total loss and its three terms are 0.
C4_MatchGivesZero ==
    MatchingScenario =>
        out.value = 0 /\ out.coord = 0 /\ out.obj = 0 /\ out.class = 0

\* C4, amended: in the scenario coord_loss and obj_loss are 0, and class_loss,
\* hence the total, is positive: the class vector is taken as logits, and the
\* softmax of a one-hot vector is not one-hot.
C4_MatchLeavesClassLoss ==
    MatchingScenario =>
        /\ out.coord = 0 /\ out.obj = 0
        /\ out.class > 0 /\ out.value = out.class

C4_Witness == MatchingScenario

\* C5: an invocation on tensors of different shapes returns no value.
C5_MismatchRejected ==
    (out.entry # "none" /\ y_true.B # y_pred_raw.B) => ~out.ok

\* C9, as stated: an invocation leaves the instance unchanged, and two
\* invocations of the same entry point on the same instance with the same
\* arguments return the same result whatever happened between them.
C9_ResultFixedAtConstruction ==
    [][/\ out' # out => self' = self
       /\ (out.entry # "none" /\ out'.entry = out.entry /\ out'.instance = out.instance)
              => (out'.ok = out.ok /\ out'.value = out.value)]_vars

\* C9, amended: the result is a function of the arguments, of the weights fixed
\* at construction and of the geometry YoloParams holds when the invocation is
\* made (batch size, grid size, anchor count, class count, anchors, c_grid).
C9_ResultFixedByInstanceAndGeometry ==
    [][/\ out' # out => self' = self
       /\ (/\ out.entry # "none" /\ out'.entry = out.entry
           /\ out'.instance = out.instance
           /\ out'.geometry = out.geometry)
              => (out'.ok = out.ok /\ out'.value = out.value)]_vars

\* Reached: a result of an instance whose weights are no longer those of the
\* global configuration, under the geometry now configured.
C9_Witness ==
    /\ out.entry = "__call__" /\ out.ok /\ out.value > 0
    /\ out.instance = self
    /\ self.lambda_obj # YoloParams.OBJECT_SCALE
    /\ out.geometry = Geometry(YoloParams)

=============================================================================
